---- MODULE Spec2Model ----
(***************************************************************************)
(* Model of the proposal assistant (src/index.tsx): the click handler of   *)
(* the generate button, its two remote calls, the parsing of the second    *)
(* response and the rendering of the result or of an error.                *)
(*                                                                         *)
(* Text.  A JavaScript string is a sequence of units.  A unit is one       *)
(* character, or a run of characters that no operation of the program      *)
(* looks into (a word such as "json" or "painPoints", a fixed message, a   *)
(* fixed piece of the page templates).  Every character the program tests  *)
(* (white space, the back quote, the five characters escapeHtml replaces,  *)
(* the JSON punctuation, digits) is always a unit of its own in text that  *)
(* comes from the user or from the remote model.                           *)
(*                                                                         *)
(* Values.  A JavaScript value is a record with a tag t: undefined, null,  *)
(* bool, num, str, arr (v: sequence of values), obj (v: sequence of        *)
(* <<key, value>> members in source order).                                *)
(***************************************************************************)
EXTENDS Integers, Sequences, FiniteSets, TLC

----------------------------------------------------------------------------
(* Sequences of units *)

WS == {" ", "\n"}

Q == "\""

(* the back quote character (U+0060) *)
BT == "U+0060"

RECURSIVE Flatten(_)
Flatten(ss) ==
    IF ss = <<>> THEN <<>> ELSE Head(ss) \o Flatten(Tail(ss))

Units(s) == {s[i] : i \in 1..Len(s)}

(* String.prototype.trim *)
trim(s) ==
    LET keep == {i \in 1..Len(s) : s[i] \notin WS}
    IN  IF keep = {} THEN <<>>
        ELSE LET lo == CHOOSE i \in keep : \A j \in keep : i <= j
                 hi == CHOOSE i \in keep : \A j \in keep : j <= i
             IN  SubSeq(s, lo, hi)

(* unsafe.replace(/c/g, r) for a single character c *)
RECURSIVE ReplaceAll(_, _, _)
ReplaceAll(s, c, r) ==
    IF s = <<>> THEN <<>>
    ELSE (IF Head(s) = c THEN r ELSE <<Head(s)>>) \o ReplaceAll(Tail(s), c, r)

escapeHtml(unsafe) ==
    ReplaceAll(ReplaceAll(ReplaceAll(ReplaceAll(ReplaceAll(unsafe,
        "&", <<"&", "a", "m", "p", ";">>),
        "<", <<"&", "l", "t", ";">>),
        ">", <<"&", "g", "t", ";">>),
        Q, <<"&", "q", "u", "o", "t", ";">>),
        "'", <<"&", "#", "0", "3", "9", ";">>)

----------------------------------------------------------------------------
(* response.text.replace(re, '') where re is the global pattern           *)
(* ^FENCEjson\s*|FENCE\s*$ and FENCE is three back quotes                  *)

AllWs(s, from) == \A k \in from..Len(s) : s[k] \in WS

(* end of the match of ^FENCEjson\s* at the start of s, 0 when it fails *)
LeadingFenceEnd(s) ==
    IF Len(s) >= 4 /\ s[1] = BT /\ s[2] = BT /\ s[3] = BT /\ s[4] = "json"
    THEN LET rest == {k \in 5..Len(s) : s[k] \notin WS}
         IN  IF rest = {} THEN Len(s)
             ELSE (CHOOSE k \in rest : \A m \in rest : k <= m) - 1
    ELSE 0

(* start of the leftmost match of FENCE\s*$ in s, 0 when there is none *)
TrailingFenceStart(s) ==
    LET at == {i \in 1..(Len(s) - 2) :
                  /\ s[i] = BT /\ s[i + 1] = BT /\ s[i + 2] = BT
                  /\ AllWs(s, i + 3)}
    IN  IF at = {} THEN 0 ELSE CHOOSE i \in at : \A j \in at : i <= j

stripFence(text) ==
    LET e == LeadingFenceEnd(text)
        rest == SubSeq(text, e + 1, Len(text))
        t == TrailingFenceStart(rest)
    IN  IF t = 0 THEN rest ELSE SubSeq(rest, 1, t - 1)

----------------------------------------------------------------------------
(* JavaScript values *)

Undefined == [t |-> "undefined"]
Null == [t |-> "null"]
Bool(b) == [t |-> "bool", v |-> b]
Num(n) == [t |-> "num", v |-> n]
Str(s) == [t |-> "str", v |-> s]
Arr(a) == [t |-> "arr", v |-> a]
Obj(m) == [t |-> "obj", v |-> m]

----------------------------------------------------------------------------
(* JSON.parse on the part of the grammar the responses use: white space,   *)
(* null, true, false, unsigned integers, strings without escapes, arrays,  *)
(* objects.  A result is [ok, v, n]: n is the position after the value.    *)

Digits == {"0", "1", "2", "3", "4", "5", "6", "7", "8", "9"}

DigitValue(d) ==
    CASE d = "0" -> 0 [] d = "1" -> 1 [] d = "2" -> 2 [] d = "3" -> 3
      [] d = "4" -> 4 [] d = "5" -> 5 [] d = "6" -> 6 [] d = "7" -> 7
      [] d = "8" -> 8 [] d = "9" -> 9

ParseFail == [ok |-> FALSE, v |-> Undefined, n |-> 0]

ParseOk(val, next) == [ok |-> TRUE, v |-> val, n |-> next]

SkipWs(s, i) ==
    LET stop == {j \in i..Len(s) : s[j] \notin WS}
    IN  IF stop = {} THEN Len(s) + 1 ELSE CHOOSE j \in stop : \A k \in stop : j <= k

ParseString(s, j) ==
    LET close == {k \in (j + 1)..Len(s) : s[k] = Q}
    IN  IF close = {} THEN ParseFail
        ELSE LET k == CHOOSE x \in close : \A y \in close : x <= y
                 body == SubSeq(s, j + 1, k - 1)
             IN  IF "\n" \in Units(body) \/ "\\" \in Units(body) THEN ParseFail
                 ELSE ParseOk(Str(body), k + 1)

RECURSIVE ParseDigits(_, _, _)
ParseDigits(s, j, acc) ==
    IF j <= Len(s) /\ s[j] \in Digits
    THEN ParseDigits(s, j + 1, 10 * acc + DigitValue(s[j]))
    ELSE ParseOk(Num(acc), j)

ParseNumber(s, j) ==
    IF s[j] = "0" /\ j + 1 <= Len(s) /\ s[j + 1] \in Digits THEN ParseFail
    ELSE ParseDigits(s, j, 0)

RECURSIVE ParseValue(_, _), ParseElements(_, _, _), ParseMembers(_, _, _)

ParseValue(s, i) ==
    LET j == SkipWs(s, i)
    IN  IF j > Len(s) THEN ParseFail
        ELSE CASE s[j] = "null" -> ParseOk(Null, j + 1)
               [] s[j] = "true" -> ParseOk(Bool(TRUE), j + 1)
               [] s[j] = "false" -> ParseOk(Bool(FALSE), j + 1)
               [] s[j] \in Digits -> ParseNumber(s, j)
               [] s[j] = Q -> ParseString(s, j)
               [] s[j] = "[" ->
                    LET k == SkipWs(s, j + 1)
                    IN  IF k <= Len(s) /\ s[k] = "]" THEN ParseOk(Arr(<<>>), k + 1)
                        ELSE ParseElements(s, j + 1, <<>>)
               [] s[j] = "{" ->
                    LET k == SkipWs(s, j + 1)
                    IN  IF k <= Len(s) /\ s[k] = "}" THEN ParseOk(Obj(<<>>), k + 1)
                        ELSE ParseMembers(s, j + 1, <<>>)
               [] OTHER -> ParseFail

ParseElements(s, i, acc) ==
    LET r == ParseValue(s, i)
    IN  IF ~r.ok THEN ParseFail
        ELSE LET k == SkipWs(s, r.n)
             IN  IF k > Len(s) THEN ParseFail
                 ELSE IF s[k] = "," THEN ParseElements(s, k + 1, Append(acc, r.v))
                 ELSE IF s[k] = "]" THEN ParseOk(Arr(Append(acc, r.v)), k + 1)
                 ELSE ParseFail

ParseMembers(s, i, acc) ==
    LET j == SkipWs(s, i)
    IN  IF j > Len(s) \/ s[j] # Q THEN ParseFail
        ELSE LET key == ParseString(s, j)
             IN  IF ~key.ok THEN ParseFail
                 ELSE LET c == SkipWs(s, key.n)
                      IN  IF c > Len(s) \/ s[c] # ":" THEN ParseFail
                          ELSE LET r == ParseValue(s, c + 1)
                               IN  IF ~r.ok THEN ParseFail
                                   ELSE LET k == SkipWs(s, r.n)
                                            m == Append(acc, <<key.v.v, r.v>>)
                                        IN  IF k > Len(s) THEN ParseFail
                                            ELSE IF s[k] = "," THEN ParseMembers(s, k + 1, m)
                                            ELSE IF s[k] = "}" THEN ParseOk(Obj(m), k + 1)
                                            ELSE ParseFail

(* JSON.parse(text): [ok |-> FALSE] stands for the SyntaxError it throws *)
JSONparse(text) ==
    LET r == ParseValue(text, 1)
    IN  IF r.ok /\ SkipWs(text, r.n) > Len(text) THEN r ELSE ParseFail

----------------------------------------------------------------------------
(* Property access, truthiness and comparison of JavaScript values *)

IsNullish(x) == x.t \in {"undefined", "null"}

(* x.key for a value x that is neither undefined nor null *)
GetProp(x, key) ==
    CASE x.t = "obj" ->
            LET at == {i \in 1..Len(x.v) : x.v[i][1] = key}
            IN  IF at = {} THEN Undefined
                ELSE x.v[CHOOSE i \in at : \A j \in at : j <= i][2]
      [] x.t \in {"arr", "str"} /\ key = <<"length">> -> Num(Len(x.v))
      [] OTHER -> Undefined

(* x?.key *)
GetPropOptional(x, key) == IF IsNullish(x) THEN Undefined ELSE GetProp(x, key)

Truthy(x) ==
    CASE x.t \in {"undefined", "null"} -> FALSE
      [] x.t = "bool" -> x.v
      [] x.t = "num" -> x.v # 0
      [] x.t = "str" -> x.v # <<>>
      [] OTHER -> TRUE

(* x > 0 for the values a length can be here: undefined and null compare   *)
(* false, a boolean as 0 or 1, a number by its value                       *)
GreaterThanZero(x) ==
    CASE x.t = "num" -> x.v > 0
      [] x.t = "bool" -> x.v
      [] OTHER -> FALSE

(* The result of evaluating an expression: a string, or a thrown TypeError *)
(* with its message                                                        *)
Value(s) == [threw |-> FALSE, s |-> s]

Throw(message) == [threw |-> TRUE, s |-> message]

CannotRead(of, key) ==
    <<"Cannot read properties of ", of, " (reading ", "'", key, "'", ")">>

NotAFunction(what) == what \o <<" is not a function">>

(* escapeHtml(x) called with an arbitrary value: x.replace must exist *)
escapeHtmlOf(x) ==
    CASE x.t = "str" -> Value(escapeHtml(x.v))
      [] x.t \in {"undefined", "null"} -> Throw(CannotRead(x.t, "replace"))
      [] OTHER -> Throw(NotAFunction(<<"unsafe.replace">>))

(* `${x}` for a string or undefined or null *)
TemplateText(x) ==
    CASE x.t = "str" -> x.v
      [] OTHER -> <<x.t>>

(* items.map(item => `<li>${escapeHtml(item)}</li>`).join('') *)
RECURSIVE ListItems(_)
ListItems(items) ==
    IF items = <<>> THEN Value(<<>>)
    ELSE LET e == escapeHtmlOf(Head(items))
         IN  IF e.threw THEN e
             ELSE LET r == ListItems(Tail(items))
                  IN  IF r.threw THEN r
                      ELSE Value(<<"<li>">> \o e.s \o <<"</li>">> \o r.s)

----------------------------------------------------------------------------
(* displayResults: the four sections.  The fixed text of each template is  *)
(* one unit; the white space of the templates is left out.                 *)

PainPointsHeading == "<div class=result-section><h2>Client's Pain Points</h2><ul>"
SolutionHeading == "<div class=result-section><h2>Proposed Solution</h2><p>"
TechHeading == "<div class=result-section><h2>Recommended Tech Stack</h2><ul class=tech-stack>"
SourcesHeading == "<div class=result-section sources-section><h2>Sources</h2><p>This outline was generated using information from the following sources:</p><ul>"

(* a list section: data[key]?.length > 0 ? heading + items : '' *)
ListSection(data, key, name, heading) ==
    IF IsNullish(data) THEN Throw(CannotRead(data.t, name))
    ELSE LET list == GetProp(data, key)
         IN  IF ~GreaterThanZero(GetPropOptional(list, <<"length">>)) THEN Value(<<>>)
             ELSE IF list.t # "arr" THEN Throw(NotAFunction(<<"data.", name, ".map">>))
             ELSE LET r == ListItems(list.v)
                  IN  IF r.threw THEN r
                      ELSE Value(<<heading>> \o r.s \o <<"</ul></div>">>)

painPointsHtml(data) ==
    ListSection(data, <<"painPoints">>, "painPoints", PainPointsHeading)

solutionHtml(data) ==
    LET sol == GetProp(data, <<"proposedSolution">>)
    IN  IF ~Truthy(sol) THEN Value(<<>>)
        ELSE LET e == escapeHtmlOf(sol)
             IN  IF e.threw THEN e
                 ELSE Value(<<SolutionHeading>> \o e.s \o <<"</p></div>">>)

techHtml(data) ==
    ListSection(data, <<"recommendedTech">>, "recommendedTech", TechHeading)

(* chunk => chunk.web ? `<li><a href="${chunk.web.uri}" ...>${escapeHtml(  *)
(* chunk.web.title || chunk.web.uri)}</a></li>` : ''                       *)
SourceItem(chunk) ==
    IF IsNullish(chunk) THEN Throw(CannotRead(chunk.t, "web"))
    ELSE LET web == GetProp(chunk, <<"web">>)
         IN  IF ~Truthy(web) THEN Value(<<>>)
             ELSE LET uri == GetProp(web, <<"uri">>)
                      title == GetProp(web, <<"title">>)
                      e == escapeHtmlOf(IF Truthy(title) THEN title ELSE uri)
                  IN  IF e.threw THEN e
                      ELSE Value(<<"<li><a href=\"">> \o TemplateText(uri)
                                 \o <<"\" target=\"_blank\" rel=\"noopener noreferrer\">">>
                                 \o e.s \o <<"</a></li>">>)

RECURSIVE SourceItems(_)
SourceItems(chunks) ==
    IF chunks = <<>> THEN Value(<<>>)
    ELSE LET e == SourceItem(Head(chunks))
         IN  IF e.threw THEN e
             ELSE LET r == SourceItems(Tail(chunks))
                  IN  IF r.threw THEN r ELSE Value(e.s \o r.s)

sourcesHtml(groundingChunks) ==
    IF ~GreaterThanZero(GetPropOptional(groundingChunks, <<"length">>)) THEN Value(<<>>)
    ELSE LET r == SourceItems(groundingChunks.v)
         IN  IF r.threw THEN r
             ELSE Value(<<SourcesHeading>> \o r.s \o <<"</ul></div>">>)

(* displayResults(data, groundingChunks): the markup it assigns to         *)
(* resultsContainer.innerHTML, or the TypeError thrown before the          *)
(* assignment, in which case the container is left as it was               *)
displayResults(data, groundingChunks) ==
    LET pp == painPointsHtml(data)
    IN  IF pp.threw THEN pp
        ELSE LET sol == solutionHtml(data)
             IN  IF sol.threw THEN sol
                 ELSE LET tech == techHtml(data)
                      IN  IF tech.threw THEN tech
                          ELSE LET src == sourcesHtml(groundingChunks)
                               IN  IF src.threw THEN src
                                   ELSE Value(pp.s \o sol.s \o tech.s \o src.s)

(* displayError(message): the markup it assigns *)
displayError(message) == <<"<p>">> \o escapeHtml(message) \o <<"</p>">>

----------------------------------------------------------------------------
(* Inputs: what the user types and what the remote model answers *)

MaxClicks == 3

Descriptions ==
    { <<>>,
      <<" ", "\n">>,
      <<"Build", " ", "bot">>,
      <<" ", "Build", " ", "bot", "\n">> }

Key(k) == <<Q, k, Q>>

Fence == <<BT, BT, BT>>

(* valid JSON texts *)
JsonFull ==
    Flatten(<< <<"{">>, Key("painPoints"), <<":", "[">>, Key("A"), <<",">>, Key("B"),
               <<"]", ",">>, Key("proposedSolution"), <<":">>, Key("S"), <<",">>,
               Key("recommendedTech"), <<":", "[">>, Key("X"), <<"]", "}">> >>)

JsonEmptyList == Flatten(<< <<"{">>, Key("painPoints"), <<":", "[", "]", "}">> >>)

JsonMarkup ==
    Flatten(<< <<"{">>, Key("painPoints"), <<":", "[", Q, "<", "script", ">", Q, "]", ",">>,
               Key("proposedSolution"), <<":", Q, "R", "&", "D", "'", Q, "}">> >>)

JsonNull == <<"null">>

JsonNumber == <<"5">>

JsonSolutionNumber ==
    Flatten(<< <<"{">>, Key("painPoints"), <<":", "[">>, Key("A"), <<"]", ",">>,
               Key("proposedSolution"), <<":", "5", "}">> >>)

JsonPainPointsString ==
    Flatten(<< <<"{">>, Key("painPoints"), <<":">>, Key("A"), <<",">>,
               Key("proposedSolution"), <<":">>, Key("S"), <<"}">> >>)

JsonTechNumbers ==
    Flatten(<< <<"{">>, Key("proposedSolution"), <<":">>, Key("S"), <<",">>,
               Key("recommendedTech"), <<":", "[", "1", "]", "}">> >>)

ValidJson ==
    { JsonFull, JsonEmptyList, JsonMarkup, JsonNull, JsonNumber,
      JsonSolutionNumber, JsonPainPointsString, JsonTechNumbers }

(* the forms a response may wrap a JSON text in *)
Bare(j) == j

JsonFenced(j) == Fence \o <<"json", "\n">> \o j \o <<"\n">> \o Fence

JsonFencedPadded(j) == Fence \o <<"json", " ", "\n">> \o j \o <<"\n">> \o Fence \o <<" ", "\n">>

PlainFenced(j) == Fence \o <<"\n">> \o j \o <<"\n">> \o Fence

LedBySpace(j) == <<" ">> \o JsonFenced(j)

Wrapped(j) == { Bare(j), JsonFenced(j), JsonFencedPadded(j), PlainFenced(j), LedBySpace(j) }

(* texts that are not JSON *)
JsonTruncated == Flatten(<< <<"{">>, Key("painPoints"), <<":", " ", "[">> >>)

JsonAfterProse == <<"Here", " ", "it", " ", "is", ":", " ">> \o JsonEmptyList

InvalidTexts ==
    { <<>>, JsonTruncated, JsonAfterProse, JsonFenced(JsonTruncated),
      Fence \o <<"json">> \o Fence \o <<"json">> \o JsonEmptyList }

ResponseTexts ==
    {Undefined} \cup {Str(t) : t \in InvalidTexts \cup UNION {Wrapped(j) : j \in ValidJson}}

(* grounding chunks *)
Web(members) == Obj(<< <<<<"web">>, Obj(members)>> >>)

ChunkNoWeb == Obj(<<>>)

ChunkUriOnly == Web(<< <<<<"uri">>, Str(<<"https://e.com">>)>> >>)

ChunkMarkup ==
    Web(<< <<<<"uri">>, Str(<<"https://e.com/?q=", Q, ">", "<", "script", ">">>)>>,
           <<<<"title">>, Str(<<"T", "<", "b", ">">>)>> >>)

GroundingChunkLists ==
    { Undefined, Arr(<<>>), Arr(<<ChunkNoWeb>>), Arr(<<ChunkUriOnly>>),
      Arr(<<ChunkNoWeb, ChunkMarkup>>) }

Responses == [text : ResponseTexts, groundingChunks : GroundingChunkLists]

CleanedDescriptions == {Str(<<"A", " ", "bot">>), Undefined}

(* what a remote call can reject with: an Error with a message, or a value *)
(* that is not an Error                                                    *)
Thrown == [isError : {TRUE}, message : {<<"Network", " ", "error">>, <<"<", "quota", ">">>, <<>>}]
          \cup {[isError |-> FALSE, message |-> <<"plain", " ", "string">>]}

----------------------------------------------------------------------------
(* State *)

VARIABLES
    isLoading,        \* let isLoading
    disabled,         \* generateBtn.disabled
    hidden,           \* loadingIndicator.classList contains 'hidden'
    messageElement,   \* loadingIndicator.querySelector('p') is not null
    caption,          \* its textContent
    innerHTML,        \* resultsContainer.innerHTML
    errorClass,       \* resultsContainer.classList contains 'error'
    value,            \* descriptionInput.value
    inflight,         \* the runs of handleGenerateClick suspended at an await
    calls,            \* how often each remote call has been issued
    clicks,           \* how often the button's click event has fired
    dropped,          \* the awaits at which a click has been dropped so far
    last              \* the latest run of handleGenerateClick that was not dropped

vars == <<isLoading, disabled, hidden, messageElement, caption, innerHTML,
          errorClass, value, inflight, calls, clicks, dropped, last>>

DefaultMessage == <<"Analyzing description and crafting your outline...">>
CleaningMessage == <<"Cleaning project description...">>
ResearchingMessage == <<"Researching latest AI solutions...">>
ValidationMessage == <<"Please paste a project description first.">>
InvalidFormatMessage == <<"The AI returned an invalid format. Please try again.">>
UnknownErrorMessage == <<"An unknown error occurred.">>
ErrorPrefix == <<"An error occurred while generating the outline: ">>

NoThrown == [isError |-> FALSE, message |-> <<>>]
NoResponse == [text |-> Undefined, groundingChunks |-> Undefined]
NotSettled == [state |-> "none", cleaned |-> Undefined, response |-> NoResponse, thrown |-> NoThrown]
Resolved1(text) == [NotSettled EXCEPT !.state = "resolved", !.cleaned = text]
Resolved2(resp) == [NotSettled EXCEPT !.state = "resolved", !.response = resp]
Rejected(err) == [NotSettled EXCEPT !.state = "rejected", !.thrown = err]

Run(kind, s1, s2, issued, displayed) ==
    [kind |-> kind, stage1 |-> s1, stage2 |-> s2, issued |-> issued,
     displayResultsCalled |-> displayed]

(* The page as index.html declares it *)
document ==
    [disabled |-> FALSE, hidden |-> TRUE, caption |-> DefaultMessage,
     innerHTML |-> <<>>, errorClass |-> FALSE, value |-> <<>>]

Init ==
    /\ isLoading = FALSE
    /\ disabled = document.disabled
    /\ hidden = document.hidden
    /\ messageElement \in BOOLEAN
    /\ caption = document.caption
    /\ innerHTML = document.innerHTML
    /\ errorClass = document.errorClass
    /\ value = document.value
    /\ inflight = <<>>
    /\ calls = [cleanDescription |-> 0, getProposalOutline |-> 0]
    /\ clicks = 0
    /\ dropped = {}
    /\ last = Run("none", NotSettled, NotSettled, {}, FALSE)

----------------------------------------------------------------------------
(* setLoading(state, message), called when the container holds html and    *)
(* carries the error class iff cls                                         *)

setLoading(state, message, html, cls) ==
    /\ isLoading' = state
    /\ disabled' = state
    /\ hidden' = ~state
    /\ caption' = IF messageElement THEN message ELSE caption
    /\ innerHTML' = IF state THEN <<>> ELSE html
    /\ errorClass' = IF state THEN FALSE ELSE cls

(* lines 96-104: the inner try/catch.  The result is the parsed value, or  *)
(* the Error the catch clause throws in place of whatever the try threw    *)
(* (the TypeError of undefined.replace, or the SyntaxError of JSON.parse)  *)
parseResponseRethrows(text) ==
    IF text.t # "str" THEN [threw |-> TRUE, v |-> Undefined,
                            message |-> CannotRead("undefined", "replace")]
    ELSE LET r == JSONparse(trim(stripFence(text.v)))
         IN  IF r.ok THEN [threw |-> FALSE, v |-> r.v, message |-> <<>>]
             ELSE [threw |-> TRUE, v |-> Undefined, message |-> <<"Unexpected token">>]

parseResponse(text) ==
    IF text.t # "str" THEN [threw |-> TRUE, v |-> Undefined, message |-> InvalidFormatMessage]
    ELSE LET r == JSONparse(trim(stripFence(text.v)))
         IN  IF r.ok THEN [threw |-> FALSE, v |-> r.v, message |-> <<>>]
             ELSE [threw |-> TRUE, v |-> Undefined, message |-> InvalidFormatMessage]

errorMessageOfAnyValue(error) == error.message

(* line 111 *)
errorMessage(error) == IF error.isError THEN error.message ELSE UnknownErrorMessage

CatchWithoutFinally(error, run) ==
    /\ innerHTML' = displayError(ErrorPrefix \o errorMessage(error))
    /\ errorClass' = TRUE
    /\ last' = run
    /\ UNCHANGED <<isLoading, disabled, hidden, caption>>

(* lines 109-115: catch (error) and finally, ending the run *)
CatchAndFinally(error, run) ==
    /\ setLoading(FALSE, DefaultMessage, displayError(ErrorPrefix \o errorMessage(error)), TRUE)
    /\ last' = run

Remove(seq, i) == SubSeq(seq, 1, i - 1) \o SubSeq(seq, i + 1, Len(seq))

----------------------------------------------------------------------------
(* The user edits the description *)
EditDescription ==
    /\ \E d \in Descriptions : value' = d
    /\ value' # value
    /\ UNCHANGED <<isLoading, disabled, hidden, messageElement, caption, innerHTML,
                   errorClass, inflight, calls, clicks, dropped, last>>

(* line 79: the click is dropped *)
ClickWhileLoading ==
    /\ dropped' = dropped \cup {inflight[k].pc : k \in 1..Len(inflight)}
    /\ UNCHANGED <<isLoading, disabled, hidden, messageElement, caption, innerHTML,
                   errorClass, value, inflight, calls, last>>

(* lines 83-84 *)
ClickEmpty ==
    /\ innerHTML' = displayError(ValidationMessage)
    /\ errorClass' = TRUE
    /\ last' = Run("validation", NotSettled, NotSettled, {}, FALSE)
    /\ UNCHANGED <<isLoading, disabled, hidden, messageElement, caption, value,
                   inflight, calls, dropped>>

(* lines 87-90, up to the first await: cleanDescription has issued its     *)
(* request                                                                 *)
ClickStart ==
    /\ setLoading(TRUE, CleaningMessage, innerHTML, errorClass)
    /\ inflight' = Append(inflight, [pc |-> "cleanDescription",
                                     projectDescription |-> trim(value),
                                     stage1 |-> NotSettled,
                                     issued |-> {"cleanDescription"}])
    /\ calls' = [calls EXCEPT !.cleanDescription = @ + 1]
    /\ last' = Run("started", NotSettled, NotSettled, {}, FALSE)
    /\ UNCHANGED <<messageElement, value, dropped>>

handleGenerateClickUnguarded ==
    /\ clicks < MaxClicks
    /\ clicks' = clicks + 1
    /\ IF trim(value) = <<>> THEN ClickEmpty ELSE ClickStart

handleGenerateClickUntrimmed ==
    /\ clicks < MaxClicks
    /\ clicks' = clicks + 1
    /\ IF isLoading THEN ClickWhileLoading
       ELSE IF value = <<>> THEN ClickEmpty
       ELSE ClickStart

(* lines 78-90: the click handler up to its first return or await *)
handleGenerateClick ==
    /\ clicks < MaxClicks
    /\ clicks' = clicks + 1
    /\ IF isLoading THEN ClickWhileLoading
       ELSE IF trim(value) = <<>> THEN ClickEmpty
       ELSE ClickStart

(* lines 90-93: cleanDescription resolved; getProposalOutline issues its   *)
(* request                                                                 *)
cleanDescriptionResolved(i, text) ==
    /\ inflight[i].pc = "cleanDescription"
    /\ setLoading(TRUE, ResearchingMessage, innerHTML, errorClass)
    /\ inflight' = [inflight EXCEPT ![i].pc = "getProposalOutline",
                                    ![i].stage1 = Resolved1(text),
                                    ![i].issued = @ \cup {"getProposalOutline"}]
    /\ calls' = [calls EXCEPT !.getProposalOutline = @ + 1]
    /\ UNCHANGED <<messageElement, value, clicks, dropped, last>>

(* line 90 throws: cleanDescription rejected *)
cleanDescriptionRejected(i, error) ==
    /\ inflight[i].pc = "cleanDescription"
    /\ inflight' = Remove(inflight, i)
    /\ UNCHANGED <<messageElement, value, calls, clicks, dropped>>
    /\ CatchAndFinally(error, Run("completed", Rejected(error), NotSettled,
                                  inflight[i].issued, FALSE))

(* line 93 throws: getProposalOutline rejected *)
getProposalOutlineRejected(i, error) ==
    /\ inflight[i].pc = "getProposalOutline"
    /\ inflight' = Remove(inflight, i)
    /\ UNCHANGED <<messageElement, value, calls, clicks, dropped>>
    /\ CatchAndFinally(error, Run("completed", inflight[i].stage1, Rejected(error),
                                  inflight[i].issued, FALSE))

(* lines 93-115: getProposalOutline resolved with response *)
getProposalOutlineResolved(i, response) ==
    /\ inflight[i].pc = "getProposalOutline"
    /\ inflight' = Remove(inflight, i)
    /\ UNCHANGED <<messageElement, value, calls, clicks, dropped>>
    /\ LET parsed == parseResponse(response.text)
           shown == displayResults(parsed.v, response.groundingChunks)
           run == Run("completed", inflight[i].stage1, Resolved2(response),
                      inflight[i].issued, ~parsed.threw)
       IN  IF parsed.threw
           THEN CatchAndFinally([isError |-> TRUE, message |-> parsed.message], run)
           ELSE IF shown.threw
           THEN CatchAndFinally([isError |-> TRUE, message |-> shown.s], run)
           ELSE /\ setLoading(FALSE, DefaultMessage, shown.s, errorClass)
                /\ last' = run

(* A pending remote call returns: the run awaiting it resumes *)
Returns(cleaned, thrown, responses) ==
    \E i \in 1..Len(inflight) :
        \/ \E text \in cleaned : cleanDescriptionResolved(i, text)
        \/ \E error \in thrown : cleanDescriptionRejected(i, error)
        \/ \E error \in thrown : getProposalOutlineRejected(i, error)
        \/ \E response \in responses : getProposalOutlineResolved(i, response)

RemoteReturns == Returns(CleanedDescriptions, Thrown, Responses)

Next ==
    \/ EditDescription
    \/ handleGenerateClick
    \/ RemoteReturns

Spec == Init /\ [][Next]_vars

(* The same program with one second response for each way a run can end,   *)
(* and with remote calls that eventually return                            *)
OutcomeResponses ==
    [text : {Str(JsonFenced(JsonFull)), Str(JsonTruncated), Str(JsonNull), Undefined},
     groundingChunks : {Undefined, Arr(<<ChunkUriOnly>>)}]

RemoteEventuallyReturns == Returns(CleanedDescriptions, Thrown, OutcomeResponses)

NextFair ==
    \/ EditDescription
    \/ handleGenerateClick
    \/ RemoteEventuallyReturns

FairSpec == Init /\ [][NextFair]_vars /\ WF_vars(RemoteEventuallyReturns)

----------------------------------------------------------------------------
(* Properties *)

Completed == last.kind = "completed"

Clicked == clicks' # clicks

Headings == {PainPointsHeading, SolutionHeading, TechHeading, SourcesHeading}

NoSection == Units(innerHTML) \cap Headings = {}

ErrorShown(message) ==
    /\ errorClass
    /\ innerHTML = <<"<p>">> \o message \o <<"</p>">>

(* C1: a click that arrives while isLoading is true, at either await of the *)
(* run in flight, issues no remote call, leaves isLoading, the results      *)
(* view, the error class and the caption as they are and starts no run,     *)
(* then or later: a run starts only in the step of a click that found       *)
(* isLoading false, so at most one run is ever in flight.                   *)
C1_ClickWhileLoadingIsDropped ==
    /\ [](Len(inflight) <= 1)
    /\ [][/\ (Clicked /\ isLoading) =>
                UNCHANGED <<calls, inflight, isLoading, disabled, hidden, caption,
                            innerHTML, errorClass>>
          /\ (calls' # calls \/ Len(inflight') > Len(inflight)) =>
                (~isLoading \/ ~Clicked)
          /\ Len(inflight') > Len(inflight) => (Clicked /\ ~isLoading)]_vars

C1_Witness ==
    /\ dropped = {"cleanDescription", "getProposalOutline"}
    /\ isLoading
    /\ Len(inflight) = 1
    /\ calls = [cleanDescription |-> 1, getProposalOutline |-> 1]

(* C2: a click with a non-blank description while isLoading is false sets   *)
(* isLoading once, when the run starts, and clears it once, when the run    *)
(* ends, whatever the outcome; the run ends if the remote calls return; and *)
(* in every state the loading indicator is visible and the button disabled  *)
(* exactly when isLoading is true.                                          *)
C2_LoadingOncePerRun ==
    /\ [](/\ hidden = ~isLoading
          /\ disabled = isLoading
          /\ isLoading = (Len(inflight) = 1))
    /\ [][/\ (~isLoading /\ isLoading') =>
                (Clicked /\ trim(value) # <<>> /\ Len(inflight') = Len(inflight) + 1)
          /\ (isLoading /\ ~isLoading') =>
                (Len(inflight') = Len(inflight) - 1 /\ last'.kind = "completed")
          /\ (Clicked /\ ~isLoading /\ trim(value) # <<>>) => isLoading']_vars
    /\ (isLoading ~> ~isLoading)

C2_Witness ==
    /\ Completed
    /\ last.displayResultsCalled
    /\ errorClass
    /\ ~isLoading
    /\ hidden
    /\ ~disabled

(* C3: a click while isLoading is false and the description is empty or all *)
(* white space issues no remote call, starts no run, leaves isLoading false *)
(* and the indicator hidden, and shows the fixed validation message in the  *)
(* error state.                                                             *)
C3_BlankDescriptionIsRejected ==
    [][(Clicked /\ ~isLoading /\ \A k \in 1..Len(value) : value[k] \in WS) =>
          /\ calls' = calls
          /\ inflight' = inflight
          /\ ~isLoading'
          /\ hidden' = hidden
          /\ errorClass'
          /\ innerHTML' = <<"<p>", "Please paste a project description first.", "</p>">>]_vars

C3_Witness ==
    /\ last.kind = "validation"
    /\ value = <<" ", "\n">>
    /\ errorClass
    /\ hidden
    /\ ~isLoading
    /\ calls.cleanDescription = 0

(* C4: when cleanDescription fails, the run has not called                  *)
(* getProposalOutline nor displayResults, and the view shows the error with *)
(* the message of the Error thrown, or 'An unknown error occurred.' when    *)
(* the thrown value is not an Error.                                        *)
C4_Stage1FailureStopsTheRun ==
    (Completed /\ last.stage1.state = "rejected") =>
        /\ last.issued = {"cleanDescription"}
        /\ last.stage2.state = "none"
        /\ ~last.displayResultsCalled
        /\ NoSection
        /\ ErrorShown(ErrorPrefix \o
              (IF last.stage1.thrown.isError
               THEN escapeHtml(last.stage1.thrown.message)
               ELSE <<"An unknown error occurred.">>))

C4_Witness ==
    /\ Completed
    /\ last.stage1.state = "rejected"
    /\ ~last.stage1.thrown.isError
    /\ calls.getProposalOutline = 0

(* C5: when the text of the second response is missing, or is not JSON once *)
(* the fence is stripped and the text trimmed, the run ends with the view   *)
(* showing the invalid-format message, not the parser's own message, with   *)
(* no results section, and displayResults has not been called.              *)
NotJson(text) == text.t # "str" \/ ~JSONparse(trim(stripFence(text.v))).ok

C5_InvalidFormatIsReported ==
    (Completed /\ last.stage2.state = "resolved" /\ NotJson(last.stage2.response.text)) =>
        /\ ~last.displayResultsCalled
        /\ NoSection
        /\ ~isLoading
        /\ ErrorShown(ErrorPrefix \o
              <<"The AI returned an invalid format. Please try again.">>)

C5_Witness ==
    /\ Completed
    /\ last.stage2.state = "resolved"
    /\ last.stage2.response.text = Str(JsonTruncated)
    /\ errorClass

(* C6: a completed run leaves either the results, exactly when both remote  *)
(* calls and the parse succeeded, or one error message and no results       *)
(* section.                                                                 *)
AllSucceeded ==
    /\ last.stage1.state = "resolved"
    /\ last.stage2.state = "resolved"
    /\ ~NotJson(last.stage2.response.text)

C6_ResultsOrOneError ==
    Completed =>
        IF AllSucceeded
        THEN ~errorClass /\ last.displayResultsCalled
        ELSE /\ errorClass
             /\ NoSection
             /\ Len(innerHTML) >= 2
             /\ innerHTML[1] = "<p>"
             /\ innerHTML[Len(innerHTML)] = "</p>"

(* C7: for a valid JSON text J, the responses J, J in a json fence, J in a  *)
(* plain fence, with white space around them, all lead to the view that J   *)
(* itself leads to; and stripping a stripped text changes nothing.          *)
ViewOf(json, chunks) ==
    LET shown == displayResults(JSONparse(json).v, chunks)
    IN  IF shown.threw
        THEN ErrorShown(ErrorPrefix \o escapeHtml(shown.s))
        ELSE ~errorClass /\ innerHTML = shown.s

C7_FenceFormIsIrrelevant ==
    (Completed /\ last.stage2.state = "resolved" /\ last.stage2.response.text.t = "str") =>
        LET text == last.stage2.response.text.v
        IN  /\ \A j \in ValidJson :
                  text \in Wrapped(j) => ViewOf(j, last.stage2.response.groundingChunks)
            /\ stripFence(stripFence(text)) = stripFence(text)

(* C8: the sources section is in the view only if some grounding chunk has  *)
(* a web reference, and a web reference without title is shown with its URI *)
(* as the link text.                                                        *)
HasWeb(chunks) ==
    /\ chunks.t = "arr"
    /\ \E k \in 1..Len(chunks.v) : Truthy(GetProp(chunks.v[k], <<"web">>))

C8_SourcesOnlyWithWebReference ==
    Completed =>
        /\ SourcesHeading \in Units(innerHTML) =>
              HasWeb(last.stage2.response.groundingChunks)
        /\ (~errorClass /\ last.stage2.response.groundingChunks = Arr(<<ChunkUriOnly>>)) =>
              \E k \in 1..Len(innerHTML) - 2 :
                  /\ innerHTML[k] = "\" target=\"_blank\" rel=\"noopener noreferrer\">"
                  /\ innerHTML[k + 1] = "https://e.com"
                  /\ innerHTML[k + 2] = "</a></li>"

(* C9: no string from the user or the remote model reaches the view with a  *)
(* raw <, >, double or single quote, or with an & that does not start one   *)
(* of the entities escapeHtml writes.                                       *)
EntityAt(s, k) ==
    \E e \in { <<"&", "a", "m", "p", ";">>, <<"&", "l", "t", ";">>, <<"&", "g", "t", ";">>,
               <<"&", "q", "u", "o", "t", ";">>, <<"&", "#", "0", "3", "9", ";">> } :
        k + Len(e) - 1 <= Len(s) /\ SubSeq(s, k, k + Len(e) - 1) = e

C9_EveryInsertedStringIsEscaped ==
    \A k \in 1..Len(innerHTML) :
        /\ innerHTML[k] \notin {"<", ">", Q, "'"}
        /\ innerHTML[k] = "&" => EntityAt(innerHTML, k)

(* C10: when the second response parses as JSON, the run ends on the        *)
(* success path, whatever the shape of the parsed value: no error is shown. *)
C10_MalformedFieldsAreOmitted ==
    (Completed /\ AllSucceeded) =>
        /\ ~errorClass
        /\ (innerHTML = <<>> \/ Units(innerHTML) \cap Headings # {})

====
